---- MODULE Spec2Model ----
(***************************************************************************)
(* Model of the voltaire ERC-4337 bundler core:                            *)
(*   bundler/bundle_manager.py      BundlerManager                         *)
(*   bundler/validation_manager.py  ValidationManager                      *)
(* Strings of the program (addresses, selectors, reasons) are modelled by  *)
(* small tagged values; every await of the program is a separate step.     *)
(***************************************************************************)
EXTENDS Integers, Sequences, FiniteSets, TLC

(***************************************************************************)
(* Bounds of the model.                                                    *)
(***************************************************************************)
\* longest batch the mempool hands to send_next_bundle
MaxOps == 2

(***************************************************************************)
(* Addresses.  An address string is <<id, case>>: case "l" is the          *)
(* lower-case hex form found in trace data, case "c" the mixed-case        *)
(* EIP-55 form.  An address without hex letters has one form only.         *)
(***************************************************************************)
\* Python's None where an address is expected
None == <<"none", "-">>

\* ids of addresses whose hex digits hold no letter a-f
DigitOnlyIds == {"factory9", "paymaster9"}

\* str.lower() on an address string
Lower(a) == <<a[1], "l">>

\* eth_utils.to_checksum_address
to_checksum_address(a) == IF a[1] \in DigitOnlyIds THEN <<a[1], "l">> ELSE <<a[1], "c">>

(***************************************************************************)
(* Bundle manager: inputs.                                                 *)
(***************************************************************************)
\* entity addresses of the bundled operations, checksum-cased
BundleSenders == {to_checksum_address(<<"s1", "l">>), to_checksum_address(<<"s2", "l">>)}
BundleFactories == {None, to_checksum_address(<<"f1", "l">>)}
BundlePaymasters == {None, to_checksum_address(<<"p1", "l">>)}

\* UserOperation as the bundle manager reads it
BundleOps ==
  [sender : BundleSenders, factory_address : BundleFactories,
   paymaster_address : BundlePaymasters]

\* the loop variable before the loop has run
NoOp == [sender |-> None, factory_address |-> None, paymaster_address |-> None]

\* get_user_operations_to_bundle(): a batch, possibly empty
RECURSIVE SeqsUpTo(_, _)
SeqsUpTo(S, n) ==
  IF n = 0 THEN {<<>>}
  ELSE LET shorter == SeqsUpTo(S, n - 1)
       IN shorter \cup {Append(q, x) : q \in {s \in shorter : Len(s) = n - 1}, x \in S}

MempoolBatches == SeqsUpTo(BundleOps, MaxOps)

\* a hex string "0x.." is <<"0x", n>>; int(h, 16) reads n back
Hex(n) == <<"0x", n>>
IntOfHex(h) == h[2]

\* a JSON-RPC reply: not yet arrived, {"result": v}, or {"error": ..}
Pending == [state |-> "pending", result |-> Hex(0)]
RpcError == [state |-> "error", result |-> Hex(0)]
RpcResult(v) == [state |-> "result", result |-> v]
\* "result" in reply
HasResult(reply) == reply.state = "result"

\* replies of the fan-out of send_bundle, by position in tasks_arr
\* estimate_call_gas_limit returns the hex string itself, held here as a result
GasEstimationReplies == {RpcResult(Hex(21000))}
GasPriceReplies == {RpcResult(Hex(1000)), RpcResult(Hex(2000)), RpcError}
NonceReplies == {RpcResult(Hex(7)), RpcError}
TipReplies == {RpcResult(Hex(1)), RpcError}

FanoutReplies(i) ==
  CASE i = 1 -> GasEstimationReplies
    [] i = 2 -> GasPriceReplies
    [] i = 3 -> NonceReplies
    [] OTHER -> TipReplies

\* FailedOpRevertData.SELECTOR and some other error selector
FailedOpSelector == "0x220266b6"
OtherSelector == "0x08c379a0"
Unbound == "unbound"
NoException == "none"

\* revert reasons; "AAn" in reason is decided by the reason's tag
Reasons == {"AA10 sender already constructed", "AA23 reverted", "AA33 reverted", "AA40 over verificationGasLimit"}
ReasonTag(reason) ==
  CASE reason = "AA10 sender already constructed" -> "AA1"
    [] reason = "AA23 reverted" -> "AA2"
    [] reason = "AA33 reverted" -> "AA3"
    [] OTHER -> "AA4"
Contains(reason, tag) == ReasonTag(reason) = tag

\* replies to eth_sendRawTransaction for a bundle of n operations
NoReply == [has_error |-> FALSE, has_data |-> FALSE, selector |-> "", operation_index |-> 0, reason |-> ""]
SubmissionReplies(n) ==
  {[has_error |-> FALSE, has_data |-> FALSE, selector |-> "hash", operation_index |-> 0, reason |-> ""]}
  \cup {[has_error |-> TRUE, has_data |-> FALSE, selector |-> "", operation_index |-> 0, reason |-> ""]}
  \cup {[has_error |-> TRUE, has_data |-> TRUE, selector |-> OtherSelector, operation_index |-> 0, reason |-> ""]}
  \cup {[has_error |-> TRUE, has_data |-> TRUE, selector |-> FailedOpSelector, operation_index |-> i, reason |-> r] :
          i \in 0..(n - 1), r \in Reasons}

VARIABLES
  \* ---- BundlerManager ----
  bpc,                      \* position of send_next_bundle / send_bundle
  is_legacy_mode,           \* configuration
  is_send_raw_transaction_conditional,
  user_operations,          \* the list send_bundle works on
  user_operation,           \* send_bundle's loop variable (line 67)
  solidity_error_selector,  \* local of send_bundle, assigned at line 164
  tasks,                    \* replies of the fan-out, by position
  rpc_log,                  \* requests sent by the bundle manager, in order
  sent,                     \* transactions submitted, in order
  result,                   \* reply to the submission
  banned,                   \* reputation_manager.ban_entity calls, in order
  included,                 \* reputation_manager.update_included_status calls
  invocations,              \* lists send_bundle was run with, in order
  unawaited,                \* send_bundle coroutines created and never run
  bexception,               \* exception send_next_bundle ended with
  \* ---- ValidationManager ----
  vpc,                      \* position of validate_user_operation
  is_unsafe,                \* configuration
  whitelist_entity_storage_access,
  validated_op,             \* the UserOperation being validated
  op_on_entry,              \* the same UserOperation as it was handed in
  calc_preverification_gas, \* the calorimeter's answer for it
  v_rpc_log,                \* requests sent by the validation manager, in order
  fee_tasks,                \* replies gathered by verify_gas_fees_and_get_price
  gas_price_hex,            \* value returned by verify_gas_fees_and_get_price
  sim_reply,                \* reply to eth_call / debug_traceCall
  trail,                    \* the steps of validate_user_operation run so far
  opcode_outcomes,          \* outcome of verify_banned_opcodes, by role
  access_log,               \* accesses examined by validate_entity_storage_access
  paymaster_call,           \* second value of parse_call_stack
  associated_addresses,     \* local of validate_trace_results
  v_exception,              \* exception validate_user_operation raised
  v_return                  \* value validate_user_operation returned

bvars ==
  <<bpc, is_legacy_mode, is_send_raw_transaction_conditional, user_operations,
    user_operation, solidity_error_selector, tasks, rpc_log, sent, result,
    banned, included, invocations, unawaited, bexception>>

vvars ==
  <<vpc, is_unsafe, whitelist_entity_storage_access, validated_op, op_on_entry,
    calc_preverification_gas, v_rpc_log, fee_tasks, gas_price_hex, sim_reply, trail,
    opcode_outcomes, access_log, paymaster_call, associated_addresses,
    v_exception, v_return>>

\* everything of the bundle manager but its configuration
bstate ==
  <<bpc, user_operations, user_operation, solidity_error_selector, tasks, rpc_log,
    sent, result, banned, included, invocations, unawaited, bexception>>

vars == <<bvars, vvars>>

InitBundle ==
  /\ bpc = "idle"
  /\ user_operations = <<>>
  /\ user_operation = NoOp
  /\ solidity_error_selector = Unbound
  /\ tasks = <<>>
  /\ rpc_log = <<>>
  /\ sent = <<>>
  /\ result = NoReply
  /\ banned = <<>>
  /\ included = <<>>
  /\ invocations = <<>>
  /\ unawaited = 0
  /\ bexception = NoException

\* ValidationManager.check_if_failed_op_error
check_if_failed_op_error(selector) == selector = FailedOpSelector

\* the requests of tasks_arr, lines 81-109
FanoutRequests(legacy) ==
  IF legacy
    THEN <<"eth_estimateGas", "eth_gasPrice", "eth_getTransactionCount">>
    ELSE <<"eth_estimateGas", "eth_gasPrice", "eth_getTransactionCount", "eth_maxPriorityFeePerGas">>

\* send_next_bundle without the test of line 59
SendNextBundle_NoEmptyTest ==
  /\ bpc = "idle"
  /\ \E batch \in MempoolBatches :
       /\ user_operations' = batch
       /\ bpc' = "gather"
       /\ invocations' = Append(invocations, batch)
       /\ user_operation' = IF Len(batch) > 0 THEN batch[Len(batch)] ELSE NoOp
       /\ rpc_log' = rpc_log \o FanoutRequests(is_legacy_mode)
       /\ tasks' = [i \in 1..Len(FanoutRequests(is_legacy_mode)) |-> Pending]
  /\ UNCHANGED <<is_legacy_mode, is_send_raw_transaction_conditional,
                 solidity_error_selector, sent, result, banned, included,
                 unawaited, bexception>>
  /\ UNCHANGED vvars

\* send_next_bundle, and send_bundle up to its asyncio.gather
SendNextBundle ==
  /\ bpc = "idle"
  /\ \E batch \in MempoolBatches :
       /\ user_operations' = batch
       /\ IF Len(batch) > 0
            THEN /\ bpc' = "gather"
                 /\ invocations' = Append(invocations, batch)
                 /\ user_operation' = batch[Len(batch)]
                 /\ rpc_log' = rpc_log \o FanoutRequests(is_legacy_mode)
                 /\ tasks' = [i \in 1..Len(FanoutRequests(is_legacy_mode)) |-> Pending]
            ELSE /\ bpc' = "done"
                 /\ UNCHANGED <<invocations, user_operation, rpc_log, tasks>>
  /\ UNCHANGED <<is_legacy_mode, is_send_raw_transaction_conditional,
                 solidity_error_selector, sent, result, banned, included,
                 unawaited, bexception>>
  /\ UNCHANGED vvars

\* one reply of the fan-out arrives
FanoutReply ==
  /\ bpc = "gather"
  /\ \E i \in DOMAIN tasks :
       /\ tasks[i] = Pending
       /\ \E r \in FanoutReplies(i) : tasks' = [tasks EXCEPT ![i] = r]
  /\ UNCHANGED <<bpc, is_legacy_mode, is_send_raw_transaction_conditional,
                 user_operations, user_operation, solidity_error_selector,
                 rpc_log, sent, result, banned, included, invocations,
                 unawaited, bexception>>
  /\ UNCHANGED vvars

\* the submission method, lines 147-149
SubmitMethod(conditional) ==
  IF conditional THEN "eth_sendRawTransactionConditional" ELSE "eth_sendRawTransaction"

\* txnDict with the replies read one position late
TxnDict_Shifted(t, legacy, ops) ==
  IF legacy
    THEN [data |-> ops, nonce |-> t[2].result, gas |-> IntOfHex(t[1].result),
          gasPrice |-> t[3].result, maxFeePerGas |-> None, maxPriorityFeePerGas |-> None]
    ELSE [data |-> ops, nonce |-> t[4].result, gas |-> IntOfHex(t[1].result),
          gasPrice |-> None, maxFeePerGas |-> t[3].result,
          maxPriorityFeePerGas |-> t[2].result]

\* txnDict, lines 113-142
TxnDict(t, legacy, ops) ==
  LET gas_estimation == t[1].result
      base_plus_tip_fee_gas_price == t[2].result
      nonce == t[3].result
      tip_fee_gas_price == IF legacy THEN 0 ELSE t[4].result
  IN IF legacy
       THEN [data |-> ops, nonce |-> nonce, gas |-> IntOfHex(gas_estimation),
             gasPrice |-> base_plus_tip_fee_gas_price,
             maxFeePerGas |-> None, maxPriorityFeePerGas |-> None]
       ELSE [data |-> ops, nonce |-> nonce, gas |-> IntOfHex(gas_estimation),
             gasPrice |-> None,
             maxFeePerGas |-> base_plus_tip_fee_gas_price,
             maxPriorityFeePerGas |-> tip_fee_gas_price]

\* a reply read with ["result"] raises KeyError when it has none
MissingResult(t, legacy) ==
  \/ ~HasResult(t[2])
  \/ ~HasResult(t[3])
  \/ (~legacy /\ ~HasResult(t[4]))

\* asyncio.gather returned: build, sign and submit the transaction
GatherDone ==
  /\ bpc = "gather"
  /\ \A i \in DOMAIN tasks : tasks[i] # Pending
  /\ IF MissingResult(tasks, is_legacy_mode)
       THEN /\ bpc' = "raised"
            /\ bexception' = "KeyError"
            /\ UNCHANGED <<rpc_log, sent>>
       ELSE /\ bpc' = "submit"
            /\ rpc_log' = Append(rpc_log, SubmitMethod(is_send_raw_transaction_conditional))
            /\ sent' = Append(sent, TxnDict(tasks, is_legacy_mode, user_operations))
            /\ UNCHANGED bexception
  /\ UNCHANGED <<is_legacy_mode, is_send_raw_transaction_conditional,
                 user_operations, user_operation, solidity_error_selector,
                 tasks, result, banned, included, invocations, unawaited>>
  /\ UNCHANGED vvars

\* update_included_status with the paymaster branch lost
update_included_status_NoPaymaster(sender_address, factory_address, paymaster_address) ==
  <<sender_address>>
  \o (IF factory_address # None THEN <<factory_address>> ELSE <<>>)

\* update_included_status, lines 217-226: the calls it makes, in order
update_included_status(sender_address, factory_address, paymaster_address) ==
  <<sender_address>>
  \o (IF factory_address # None THEN <<factory_address>> ELSE <<>>)
  \o (IF paymaster_address # None THEN <<paymaster_address>> ELSE <<>>)

\* the loop of lines 210-215 over the bundle
RECURSIVE IncludedCalls(_)
IncludedCalls(ops) ==
  IF ops = <<>> THEN <<>>
  ELSE update_included_status(Head(ops).sender, Head(ops).factory_address,
                              Head(ops).paymaster_address)
       \o IncludedCalls(Tail(ops))

\* lines 174-189: the ban_entity call made for a reason, read off the
\* operation that the name user_operation is bound to
BanCalls(reason, uo) ==
  IF Contains(reason, "AA3") /\ uo.paymaster_address # None
    THEN <<uo.paymaster_address>>
  ELSE IF Contains(reason, "AA2")
    THEN <<uo.sender>>
  ELSE IF Contains(reason, "AA1") /\ uo.factory_address # None
    THEN <<uo.factory_address>>
  ELSE <<>>

\* del user_operations[operation_index], the index counted from 0
DelAt(ops, operation_index) ==
  [k \in 1..(Len(ops) - 1) |-> IF k <= operation_index THEN ops[k] ELSE ops[k + 1]]

\* the reply to the submission arrives: lines 156-215
SendBundleReply ==
  /\ bpc = "submit"
  /\ \E r \in SubmissionReplies(Len(user_operations)) :
       /\ result' = r
       /\ IF r.has_error
            THEN IF r.has_data
                   THEN IF solidity_error_selector = Unbound
                          \* line 160 reads the local before line 164 binds it
                          THEN /\ bpc' = "raised"
                               /\ bexception' = "UnboundLocalError"
                               /\ UNCHANGED <<user_operations, solidity_error_selector,
                                              banned, included, unawaited>>
                          ELSE IF check_if_failed_op_error(solidity_error_selector)
                                 THEN /\ solidity_error_selector' = r.selector
                                      /\ banned' = banned \o BanCalls(r.reason, user_operation)
                                      /\ user_operations' = DelAt(user_operations, r.operation_index)
                                      \* line 197: the coroutine is created, not awaited
                                      /\ unawaited' = IF Len(user_operations) > 1
                                                        THEN unawaited + 1 ELSE unawaited
                                      /\ bpc' = "done"
                                      /\ UNCHANGED <<included, bexception>>
                                 ELSE /\ bpc' = "done"
                                      /\ UNCHANGED <<user_operations, solidity_error_selector,
                                                     banned, included, unawaited, bexception>>
                   ELSE /\ bpc' = "done"
                        /\ UNCHANGED <<user_operations, solidity_error_selector,
                                       banned, included, unawaited, bexception>>
            ELSE /\ bpc' = "done"
                 /\ included' = included \o IncludedCalls(user_operations)
                 /\ UNCHANGED <<user_operations, solidity_error_selector,
                                banned, unawaited, bexception>>
  /\ UNCHANGED <<is_legacy_mode, is_send_raw_transaction_conditional,
                 user_operation, tasks, rpc_log, sent, invocations>>
  /\ UNCHANGED vvars

BundleNext == SendNextBundle \/ FanoutReply \/ GatherDone \/ SendBundleReply

(***************************************************************************)
(* Validation manager: pure helpers.                                       *)
(***************************************************************************)
\* highest CREATE2 count an opcode map of the model holds
MaxCreate2 == 2

\* self.banned_opcodes, lines 63-81
banned_opcodes ==
  {"GAS", "NUMBER", "TIMESTAMP", "COINBASE", "DIFFICULTY", "BASEFEE", "GASLIMIT",
   "GASPRICE", "SELFBALANCE", "BALANCE", "ORIGIN", "BLOCKHASH", "CREATE",
   "SELFDESTRUCT", "RANDOM", "PREVRANDAO"}

\* an exception: its class or ValidationExceptionCode, its message, and for
\* the opcode rule the role and the opcodes the message names
NoExc == [kind |-> "none", message |-> "", source |-> "", opcodes |-> {}]
Exc(kind, message) == [kind |-> kind, message |-> message, source |-> "", opcodes |-> {}]
OpcodeExc(opcode_source, found) ==
  [kind |-> "OpcodeValidation", message |-> "uses banned opcode",
   source |-> opcode_source, opcodes |-> found]

\* verify_banned_opcodes with the CREATE2 test reading >= 1
verify_banned_opcodes_AnyCreate2(opcodes, opcode_source, is_factory) ==
  LET found_opcodes == {opcode \in DOMAIN opcodes : opcode \in banned_opcodes}
  IN IF Cardinality(found_opcodes) > 0
       THEN OpcodeExc(opcode_source, found_opcodes)
     ELSE IF "CREATE2" \in DOMAIN opcodes /\ opcodes["CREATE2"] >= 1
       THEN OpcodeExc(opcode_source, {"CREATE2"})
     ELSE NoExc

\* verify_banned_opcodes with the banned-set test lost
verify_banned_opcodes_NoBannedTest(opcodes, opcode_source, is_factory) ==
  IF "CREATE2" \in DOMAIN opcodes
       /\ (opcodes["CREATE2"] > 1 \/ (opcodes["CREATE2"] = 1 /\ ~is_factory))
    THEN OpcodeExc(opcode_source, {"CREATE2"})
    ELSE NoExc

\* verify_banned_opcodes, lines 462-490: the exception raised, or NoExc
verify_banned_opcodes(opcodes, opcode_source, is_factory) ==
  LET found_opcodes == {opcode \in DOMAIN opcodes : opcode \in banned_opcodes}
  IN IF Cardinality(found_opcodes) > 0
       THEN OpcodeExc(opcode_source, found_opcodes)
     ELSE IF "CREATE2" \in DOMAIN opcodes
             /\ (opcodes["CREATE2"] > 1 \/ (opcodes["CREATE2"] = 1 /\ ~is_factory))
       THEN OpcodeExc(opcode_source, {"CREATE2"})
     ELSE NoExc

\* check_banned_op_codes, lines 421-431: the three coroutines run in the
\* order given to asyncio.gather; their outcomes by role
check_banned_op_codes(factory_opcodes, account_opcodes, paymaster_opcodes) ==
  [factory |-> verify_banned_opcodes(factory_opcodes, "factory", TRUE),
   account |-> verify_banned_opcodes(account_opcodes, "account", FALSE),
   paymaster |-> verify_banned_opcodes(paymaster_opcodes, "paymaster", FALSE)]

\* asyncio.gather raises the exception of the first coroutine that failed
GatherException(outcomes) ==
  IF outcomes.factory # NoExc THEN outcomes.factory
  ELSE IF outcomes.account # NoExc THEN outcomes.account
  ELSE outcomes.paymaster

\* is_staked, lines 628-630
is_staked(entity_stake) == entity_stake.stake > 1 /\ entity_stake.unstakeDelaySec > 1

\* the number a 32-byte word holds: an address left-padded to 32 bytes, as
\* a storage slot or as a word of a keccak preimage
AddrNum(id) ==
  CASE id = "sender" -> 1
    [] id = "factoryA" -> 2
    [] id = "factory9" -> 3
    [] id = "paymasterA" -> 4
    [] id = "paymaster9" -> 5
    [] id = "entrypoint" -> 6
    [] OTHER -> 7

\* "0x000000000000000000000000" + address[2:].lower(), as a slot number
Padded(address) == AddrNum(address[1])

\* a keccak preimage is a pair of 32-byte words; a word is <<"pad", id>>
\* (a padded address) or <<"word", n>>
WordNum(w) == IF w[1] = "pad" THEN AddrNum(w[2]) ELSE w[2]

\* keccak(bytes.fromhex(slot_keccak[2:])), as a slot number
Keccak(preimage) == 1000 * (10 * WordNum(preimage[1]) + WordNum(preimage[2]))

\* address_padded in slot_keccak, line 713: address_padded starts with "0x",
\* which a hex string holds at its start only
PaddedIn(address, preimage) == preimage[1] = <<"pad", address[1]>>

\* the elements of a sequence
Range(seq) == {seq[k] : k \in DOMAIN seq}

\* the slots of the preimages that hold the address, each once, in order
RECURSIVE SelectSlots(_, _)
SelectSlots(keccak_list, address) ==
  IF keccak_list = <<>> THEN <<>>
  ELSE LET rest == SelectSlots(Tail(keccak_list), address)
           slot == Keccak(Head(keccak_list))
       IN IF PaddedIn(address, Head(keccak_list))
            THEN <<slot>> \o SelectSeq(rest, LAMBDA x : x # slot)
            ELSE rest

\* parse_entity_slots, lines 699-718: an entry per entity once the keccak
\* list has an element, none at all for an empty list
parse_entity_slots(entities, keccak_list) ==
  IF keccak_list = <<>>
    THEN [a \in {} |-> <<>>]
    ELSE [a \in Range(entities) |-> SelectSlots(keccak_list, a)]

\* is_slot_associated_with_address, lines 605-626
is_slot_associated_with_address(slot, address, associated_slots) ==
  \/ slot = Padded(address)
  \/ \E k \in DOMAIN associated_slots :
       slot >= associated_slots[k] /\ slot < associated_slots[k] + 18

\* self.entrypoint, checksum-cased configuration
entrypoint == to_checksum_address(<<"entrypoint", "l">>)

\* slots of a dict union reads | writes, in iteration order
SlotsOf(storage_slots) ==
  storage_slots.reads
  \o SelectSeq(storage_slots.writes, LAMBDA x : x \notin Range(storage_slots.reads))

\* the (contract, slot) pairs of an access map in iteration order
RECURSIVE AccessPairs(_)
AccessPairs(access) ==
  IF access = <<>> THEN <<>>
  ELSE LET slots == SlotsOf(Head(access))
       IN [k \in 1..Len(slots) |-> [contract |-> Head(access).contract, slot |-> slots[k]]]
          \o AccessPairs(Tail(access))

\* lines 356-419 for one slot: "accepted", "banned" or "insufficient"
SlotOutcome(slot, contract_address, entity_address, sender_address, associated_slots_per_entity, staked, is_init_code) ==
  IF contract_address = Lower(sender_address) THEN "accepted"
  ELSE IF contract_address = Lower(entrypoint) THEN "accepted"
  ELSE LET require_stake_slot ==
             IF sender_address \in DOMAIN associated_slots_per_entity
                  /\ is_slot_associated_with_address(
                       slot, sender_address, associated_slots_per_entity[sender_address])
               THEN (IF is_init_code THEN "stake" ELSE "free")
             ELSE IF entity_address \in DOMAIN associated_slots_per_entity
                       /\ is_slot_associated_with_address(
                            slot, entity_address, associated_slots_per_entity[entity_address])
               THEN "stake"
             ELSE IF contract_address = entity_address
               THEN "stake"
             ELSE "banned"
       IN IF require_stake_slot = "banned" THEN "banned"
          ELSE IF ~staked /\ require_stake_slot = "stake" THEN "insufficient"
          ELSE "accepted"

\* the accesses examined, up to and including the first one refused
RECURSIVE WalkAccess(_, _, _, _, _, _, _)
WalkAccess(pairs, entity_address, entity_title, sender_address, associated_slots_per_entity, staked, is_init_code) ==
  IF pairs = <<>> THEN <<>>
  ELSE LET outcome == SlotOutcome(Head(pairs).slot, Head(pairs).contract, entity_address,
                                  sender_address, associated_slots_per_entity, staked,
                                  is_init_code)
           entry == [title |-> entity_title, entity |-> entity_address,
                     contract |-> Head(pairs).contract, slot |-> Head(pairs).slot,
                     outcome |-> outcome]
       IN IF outcome # "accepted" THEN <<entry>>
          ELSE <<entry>> \o WalkAccess(Tail(pairs), entity_address, entity_title,
                                       sender_address, associated_slots_per_entity,
                                       staked, is_init_code)

\* validate_entity_storage_access, lines 340-419: the accesses it examined
validate_entity_storage_access(whitelist, entity_address, entity_title, associated_slots_per_entity, stake_info, sender_address, access, is_init_code) ==
  IF entity_address \in whitelist THEN <<>>
  ELSE WalkAccess(AccessPairs(access), entity_address, entity_title, sender_address,
                  associated_slots_per_entity, is_staked(stake_info), is_init_code)

\* the exception validate_entity_storage_access ended with
StorageException(log) ==
  IF log = <<>> \/ log[Len(log)].outcome = "accepted" THEN NoExc
  ELSE IF log[Len(log)].outcome = "banned"
    THEN Exc("OpcodeValidation", "banned access to slot")
  ELSE Exc("OpcodeValidation", "insuffient stake to access")

\* Call(): a frame with every field None
NoneStr == "None"
EmptyCall ==
  [_to |-> None, _type |-> NoneStr, _method |-> NoneStr, _data |-> 0,
   _return_type |-> NoneStr]
\* Python's None where a Call is expected
NoneCall == [EmptyCall EXCEPT !._type = "NoneType"]

VALIDATE_PAYMASTER_USER_OP_METHOD_SELECTOR == "0xf465c77e"

\* len("len=" + str(n)) for the data lengths of the model
LenOfLenStr(n) == IF n < 10 THEN 5 ELSE IF n < 100 THEN 6 ELSE 7

\* parse_call_stack, lines 720-778; data is held by its length
RECURSIVE ParseCalls(_, _, _, _, _)
ParseCalls(calls, paymaster_address, stack, results, last_paymaster_call) ==
  IF calls = <<>> THEN [results |-> results, paymaster_call |-> last_paymaster_call]
  ELSE
    LET call == Head(calls)
    IN IF call.type = "RETURN" \/ call.type = "REVERT"
         THEN LET top == IF Len(stack) = 0
                           THEN [EmptyCall EXCEPT !._type = "top", !._method = "validateUserOp"]
                           ELSE stack[Len(stack)]
                  rest == IF Len(stack) = 0 THEN stack ELSE SubSeq(stack, 1, Len(stack) - 1)
                  base == [EmptyCall EXCEPT !._to = top._to, !._type = top._type]
                  res == IF top._type = "CREATE"
                           THEN [base EXCEPT !._data = LenOfLenStr(call.data)]
                         ELSE IF top._type = "REVERT"
                           THEN [base EXCEPT !._method = top._method, !._data = call.data,
                                             !._return_type = "REVERT"]
                         ELSE [base EXCEPT !._method = top._method, !._data = call.data,
                                           !._return_type = "RETURN"]
                  pm == IF paymaster_address # None
                           /\ paymaster_address = res._to
                           /\ VALIDATE_PAYMASTER_USER_OP_METHOD_SELECTOR = res._method
                          THEN res ELSE last_paymaster_call
              IN ParseCalls(Tail(calls), paymaster_address, rest, Append(results, res), pm)
         ELSE ParseCalls(Tail(calls), paymaster_address,
                         Append(stack, [EmptyCall EXCEPT !._to = call.to, !._type = call.type,
                                                         !._method = call.method,
                                                         !._data = call.data]),
                         results, last_paymaster_call)

parse_call_stack(calls, paymaster_address) ==
  ParseCalls(calls, paymaster_address, <<>>, <<>>, NoneCall)

(***************************************************************************)
(* Validation manager: the checks of validate_user_operation that run      *)
(* between two awaits, as functions of what was received.                  *)
(***************************************************************************)
\* time.time() in seconds, and the value the code compares with
NowSeconds == 1700000 * 1000
NowDiv1000 == NowSeconds \div 1000

\* verify_preverification_gas with the comparison reading <=
verify_preverification_gas_Strict(uo, preverification_gas) ==
  IF uo.pre_verification_gas <= preverification_gas
    THEN Exc("SimulateValidation", "Preverification gas is too low")
    ELSE NoExc

\* verify_preverification_gas, lines 589-603
verify_preverification_gas(uo, preverification_gas) ==
  IF uo.pre_verification_gas < preverification_gas
    THEN Exc("SimulateValidation", "Preverification gas is too low")
    ELSE NoExc

\* verify_gas_fees with the tip test lost
verify_gas_fees_NoTipTest(uo, legacy, gas_price_reply, tip_reply) ==
  IF ~HasResult(gas_price_reply) \/ (~legacy /\ ~HasResult(tip_reply))
    THEN Exc("KeyError", "result")
  ELSE IF uo.max_fee_per_gas < IntOfHex(gas_price_reply.result)
    THEN Exc("SimulateValidation", "Max fee per gas is too low")
  ELSE NoExc

\* verify_gas_fees_and_get_price after its gather, lines 567-587
verify_gas_fees(uo, legacy, gas_price_reply, tip_reply) ==
  LET base_plus_tip_fee_gas_price == IntOfHex(gas_price_reply.result)
      tip_fee_gas_price ==
        IF legacy THEN base_plus_tip_fee_gas_price ELSE IntOfHex(tip_reply.result)
  IN IF ~HasResult(gas_price_reply) \/ (~legacy /\ ~HasResult(tip_reply))
       THEN Exc("KeyError", "result")
     ELSE IF uo.max_fee_per_gas < base_plus_tip_fee_gas_price
       THEN Exc("SimulateValidation", "Max fee per gas is too low")
     ELSE IF uo.max_priority_fee_per_gas < tip_fee_gas_price
       THEN Exc("SimulateValidation", "Max priority fee per gas is too low")
     ELSE NoExc

\* verify_sig_and_pre_operation_gas_and_timestamp with the deadline test first
verify_sig_and_pre_operation_gas_and_timestamp_DeadlineFirst(uo, return_info) ==
  IF return_info.validUntil + 30 < NowDiv1000
    THEN Exc("ExpiresShortly", "Transaction will expire shortly or has expired.")
  ELSE IF return_info.sigFailed
    THEN Exc("InvalidSignature", "Invalid UserOp signature or paymaster signature")
  ELSE IF uo.verification_gas_limit + uo.pre_verification_gas < return_info.preOpGas
    THEN Exc("SimulateValidation", "verification gas + preverification gas is too low")
  ELSE IF return_info.validAfter > NowDiv1000 - 30
    THEN Exc("InvalidFields", "Transaction is not valid yet")
  ELSE NoExc

\* verify_sig_and_pre_operation_gas_and_timestamp, lines 509-547
verify_sig_and_pre_operation_gas_and_timestamp(uo, return_info) ==
  IF return_info.sigFailed
    THEN Exc("InvalidSignature", "Invalid UserOp signature or paymaster signature")
  ELSE IF uo.verification_gas_limit + uo.pre_verification_gas < return_info.preOpGas
    THEN Exc("SimulateValidation", "verification gas + preverification gas is too low")
  ELSE IF return_info.validAfter > NowDiv1000 - 30
    THEN Exc("InvalidFields", "Transaction is not valid yet")
  ELSE IF return_info.validUntil + 30 < NowDiv1000
    THEN Exc("ExpiresShortly", "Transaction will expire shortly or has expired.")
  ELSE NoExc

\* what the synchronous part of validate_user_operation after the
\* simulation reply produced
Outcome(exc, steps, outcomes, log, pm_call, addresses) ==
  [exc |-> exc, trail |-> steps, opcode_outcomes |-> outcomes, access_log |-> log,
   paymaster_call |-> pm_call, associated_addresses |-> addresses]

NoOutcomes == [factory |-> NoExc, account |-> NoExc, paymaster |-> NoExc]

\* to_checksum_address over a list, lines 329-332
RECURSIVE ChecksumAll(_)
ChecksumAll(addresses) ==
  IF addresses = <<>> THEN <<>>
  ELSE <<to_checksum_address(Head(addresses))>> \o ChecksumAll(Tail(addresses))

\* validate_trace_results up to its await of get_addresses_code_hash,
\* lines 238-334
validate_trace_results(uo, whitelist, sender_stake_info, factory_stake_info, paymaster_stake_info, debug_data) ==
  LET outcomes == check_banned_op_codes(debug_data.factory.opcodes,
                                        debug_data.account.opcodes,
                                        debug_data.paymaster.opcodes)
      sender == uo.sender
      factory_address == uo.factory_address
      paymaster_address == uo.paymaster_address
      is_init_code == uo.init_code_len > 2
      entities_addreses ==
        (IF factory_address # None THEN <<factory_address>> ELSE <<>>)
        \o <<sender>>
        \o (IF paymaster_address # None THEN <<paymaster_address>> ELSE <<>>)
      associated_slots_per_entity == parse_entity_slots(entities_addreses, debug_data.keccak)
      sender_log ==
        validate_entity_storage_access(whitelist, sender, "sender",
          associated_slots_per_entity, sender_stake_info, sender,
          debug_data.account.access, is_init_code)
      factory_log ==
        IF factory_address # None
          THEN validate_entity_storage_access(whitelist, factory_address, "factory",
                 associated_slots_per_entity, factory_stake_info, sender,
                 debug_data.factory.access, is_init_code)
          ELSE <<>>
      parsed == parse_call_stack(debug_data.calls, paymaster_address)
      paymaster_log ==
        IF paymaster_address # None
          THEN validate_entity_storage_access(whitelist, paymaster_address, "paymaster",
                 associated_slots_per_entity, paymaster_stake_info, sender,
                 debug_data.paymaster.access, is_init_code)
          ELSE <<>>
      associated_addresses_lowercase ==
        debug_data.account.contract_size
        \o (IF factory_address # None THEN debug_data.factory.contract_size ELSE <<>>)
        \o (IF paymaster_address # None THEN debug_data.paymaster.contract_size ELSE <<>>)
      t1 == <<"check_banned_op_codes">>
      t2 == Append(t1, "storage_access_sender")
      t3 == IF factory_address # None THEN Append(t2, "storage_access_factory") ELSE t2
      t4 == Append(t3, "parse_call_stack")
      t5 == Append(t4, "storage_access_paymaster")
      t6 == Append(t5, "paymaster_context")
      t7 == Append(IF paymaster_address # None THEN t6 ELSE t4, "associated_addresses")
      log2 == sender_log \o factory_log
      log3 == log2 \o paymaster_log
  IN IF GatherException(outcomes) # NoExc
       THEN Outcome(GatherException(outcomes), t1, outcomes, <<>>, NoneCall, <<>>)
     ELSE IF StorageException(sender_log) # NoExc
       THEN Outcome(StorageException(sender_log), t2, outcomes, sender_log, NoneCall, <<>>)
     ELSE IF StorageException(factory_log) # NoExc
       THEN Outcome(StorageException(factory_log), t3, outcomes, log2, NoneCall, <<>>)
     ELSE IF paymaster_address # None /\ StorageException(paymaster_log) # NoExc
       THEN Outcome(StorageException(paymaster_log), t5, outcomes, log3,
                    parsed.paymaster_call, <<>>)
     ELSE IF paymaster_address # None /\ parsed.paymaster_call = NoneCall
       \* line 321 reads paymaster_call._data of None
       THEN Outcome(Exc("AttributeError", "'NoneType' object has no attribute '_data'"),
                    t6, outcomes, log3, parsed.paymaster_call, <<>>)
     ELSE IF paymaster_address # None /\ parsed.paymaster_call._data > 194
             /\ ~is_staked(paymaster_stake_info)
       THEN Outcome(Exc("OpcodeValidation", "unstaked paymaster must not return context"),
                    t6, outcomes, log3, parsed.paymaster_call, <<>>)
     ELSE IF Len(associated_addresses_lowercase) = 0
       \* line 334 reads associated_addresses, bound at line 329 only
       THEN Outcome(Exc("UnboundLocalError", "associated_addresses"),
                    t7, outcomes, log3, parsed.paymaster_call, <<>>)
     ELSE Outcome(NoExc, Append(t7, "get_addresses_code_hash"), outcomes, log3,
                  parsed.paymaster_call, ChecksumAll(associated_addresses_lowercase))

\* simulate_validation_without_tracing with the message test lost
simulate_validation_without_tracing_ErrorOnly(reply) ==
  IF ~reply.has_error
    THEN Exc("ValueError", "simulateValidation didn't revert!")
  ELSE IF ~reply.has_data
    THEN Exc("SimulateValidation", reply.message)
  ELSE NoExc

\* simulate_validation_without_tracing after its eth_call, lines 164-183:
\* the exception raised, or NoExc
simulate_validation_without_tracing(reply) ==
  IF ~reply.has_error \/ reply.message # "execution reverted"
    THEN Exc("ValueError", "simulateValidation didn't revert!")
  ELSE IF ~reply.has_data
    THEN Exc("SimulateValidation", reply.message)
  ELSE NoExc

\* simulate_validation_with_tracing after its debug_traceCall, lines 220-236
simulate_validation_with_tracing(reply) ==
  IF reply.has_result THEN NoExc
  ELSE IF reply.has_error
    THEN Exc("SimulateValidation", "debug_traceCall error")
  ELSE Exc("SimulateValidation", "Invalide Validation result from debug_traceCall")

\* validate_user_operation from the simulation reply to its next await or
\* its end, lines 90-135 with 161-183 and 220-236
AfterSimulation(uo, unsafe, whitelist, reply) ==
  LET revert == reply.revert
      simExc ==
        IF unsafe THEN simulate_validation_without_tracing(reply)
        ELSE simulate_validation_with_tracing(reply)
      decodeExc ==
        IF revert.decodable THEN NoExc
        ELSE IF revert.failed_op_decodable THEN Exc("SimulateValidation", revert.reason)
        ELSE Exc("DecodingError", "decode")
      sigExc == verify_sig_and_pre_operation_gas_and_timestamp(uo, revert.return_info)
      t1 == <<"simulate">>
      t2 == Append(t1, "check_if_failed_op_error")
      t3 == Append(t2, "decode_validation_result")
      t4 == Append(t3, "verify_sig_and_pre_operation_gas_and_timestamp")
      t5 == Append(t4, "format_debug_traceCall_data")
      early(exc, steps) == Outcome(exc, steps, NoOutcomes, <<>>, NoneCall, <<>>)
      traced == validate_trace_results(uo, whitelist, revert.sender_info, revert.factory_info,
                                       revert.paymaster_info, reply.trace)
  IN IF simExc # NoExc THEN early(simExc, t1)
     ELSE IF check_if_failed_op_error(revert.selector)
       THEN early([Exc("SimulateValidation", revert.reason) EXCEPT !.source = "revert reason"], t2)
     ELSE IF decodeExc # NoExc THEN early(decodeExc, t3)
     ELSE IF sigExc # NoExc THEN early(sigExc, t4)
     \* line 125 reads debug_data, which the unsafe branch never binds
     ELSE IF unsafe THEN early(Exc("UnboundLocalError", "debug_data"), t5)
     ELSE [traced EXCEPT !.trail = t5 \o traced.trail]

(***************************************************************************)
(* Validation manager: inputs.  E names the environment: "general" varies  *)
(* the operation's gas fields, the fee replies and the decoded revert;     *)
(* "trace" varies the entities and what the tracer reports.                *)
(***************************************************************************)
\* longest calls list of a trace
MaxCalls == 3

Cs(id) == to_checksum_address(<<id, "l">>)
OtherContract == <<"other", "l">>

StakedInfo == [stake |-> 2, unstakeDelaySec |-> 2]
UnstakedInfos == {[stake |-> 1, unstakeDelaySec |-> 2], [stake |-> 2, unstakeDelaySec |-> 1]}
UnstakedInfo == [stake |-> 1, unstakeDelaySec |-> 2]

NoHex == Hex(-1)
NoHash == "no code hash"

\* the UserOperations handed to validate_user_operation
BaseOp ==
  [sender |-> Cs("sender"), factory_address |-> None, paymaster_address |-> None,
   init_code_len |-> 2, pre_verification_gas |-> 50, verification_gas_limit |-> 100,
   max_fee_per_gas |-> 2000, max_priority_fee_per_gas |-> 2,
   code_hash |-> NoHash, associated_addresses |-> <<>>]

\* factory_address is set exactly when init_code is longer than "0x"
WithEntities(uo, factory, paymaster) ==
  [uo EXCEPT !.factory_address = factory, !.paymaster_address = paymaster,
             !.init_code_len = IF factory = None THEN 2 ELSE 42]

ValidatedOps(E) ==
  IF E = "idle" THEN {BaseOp}
  ELSE IF E = "general"
    THEN {[WithEntities(BaseOp, f, p) EXCEPT !.max_priority_fee_per_gas = tip] :
            f \in {None, Cs("factory9")}, p \in {None, Cs("paymaster9")},
            tip \in {2, 2000}}
    ELSE {WithEntities(BaseOp, f, p) :
            f \in {None, Cs("factoryA"), Cs("factory9")},
            p \in {None, Cs("paymasterA"), Cs("paymaster9")}}

\* calc_preverification_gas(user_operation)
CalorimeterAnswers(E) == IF E = "general" THEN {49, 50, 51} ELSE {50}

Whitelists(E) == IF E = "general" THEN {{}} ELSE {{}, {Cs("factoryA"), Cs("paymaster9")}}

\* replies to eth_gasPrice and eth_maxPriorityFeePerGas
ValidationGasPriceReplies(E) ==
  IF E = "general"
    THEN {RpcResult(Hex(1000)), RpcResult(Hex(2000)), RpcResult(Hex(2001)), RpcError}
    ELSE {RpcResult(Hex(1000))}
ValidationTipReplies(E) ==
  IF E = "general"
    THEN {RpcResult(Hex(1)), RpcResult(Hex(2)), RpcResult(Hex(3))}
    ELSE {RpcResult(Hex(1))}

\* opcode maps: opcode name -> count
EmptyMap == [o \in {} |-> 0]
OneOpcode(name, n) == [o \in {name} |-> n]
OpcodeMaps ==
  {EmptyMap}
  \cup {OneOpcode(name, 1) : name \in banned_opcodes \cup {"SLOAD"}}
  \cup {OneOpcode("CREATE2", n) : n \in 0..MaxCreate2}
  \cup {[o \in {"TIMESTAMP", "GAS"} |-> 1], [o \in {"CREATE2", "NUMBER"} |-> 1],
        [o \in {"SLOAD", "CREATE2"} |-> 1]}
SmallOpcodeMaps == {EmptyMap, OneOpcode("TIMESTAMP", 1), OneOpcode("CREATE2", 1)}

\* one level of the trace (numberLevels[i])
EmptyLevel == [access |-> <<>>, opcodes |-> EmptyMap, contract_size |-> <<>>]

CallEntry(type, to, method, data) == [type |-> type, to |-> to, method |-> method, data |-> data]

\* the paymaster's validatePaymasterUserOp call returning no context
BaselineCalls(uo) ==
  IF uo.paymaster_address = None THEN <<>>
  ELSE <<CallEntry("CALL", Lower(uo.paymaster_address),
                   VALIDATE_PAYMASTER_USER_OP_METHOD_SELECTOR, 0),
         CallEntry("RETURN", None, NoneStr, 194)>>

BaselineTrace(uo) ==
  [factory |-> EmptyLevel,
   account |-> [EmptyLevel EXCEPT !.contract_size = <<Lower(uo.sender)>>],
   paymaster |-> EmptyLevel,
   keccak |-> <<>>,
   calls |-> BaselineCalls(uo)]

\* the decoded revert data of simulateValidation
ValidationResultSelector == "0xe0cff05f"
BaselineReturnInfo ==
  [preOpGas |-> 150, sigFailed |-> FALSE, validAfter |-> 0, validUntil |-> NowSeconds + 3600]
BaselineRevert ==
  [selector |-> ValidationResultSelector, reason |-> "", decodable |-> TRUE,
   failed_op_decodable |-> FALSE, return_info |-> BaselineReturnInfo,
   sender_info |-> StakedInfo, factory_info |-> StakedInfo, paymaster_info |-> StakedInfo]
FailedOpRevert ==
  [BaselineRevert EXCEPT !.selector = FailedOpSelector, !.reason = "AA23 reverted",
                         !.decodable = FALSE, !.failed_op_decodable = TRUE]

\* the entity a role stands for, and the level its data is reported at
EntityOf(uo, role) ==
  CASE role = "sender" -> uo.sender
    [] role = "factory" -> uo.factory_address
    [] OTHER -> uo.paymaster_address
Roles(uo) ==
  {"sender"} \cup (IF uo.factory_address # None THEN {"factory"} ELSE {})
             \cup (IF uo.paymaster_address # None THEN {"paymaster"} ELSE {})

WithAccess(trace, role, access) ==
  CASE role = "sender" -> [trace EXCEPT !.account.access = access]
    [] role = "factory" -> [trace EXCEPT !.factory.access = access]
    [] OTHER -> [trace EXCEPT !.paymaster.access = access]
WithStake(revert, role, info) ==
  CASE role = "sender" -> [revert EXCEPT !.sender_info = info]
    [] role = "factory" -> [revert EXCEPT !.factory_info = info]
    [] OTHER -> [revert EXCEPT !.paymaster_info = info]

\* keccak preimages of mapping slots keyed by an address
PreimageOf(address) == <<<<"pad", address[1]>>, <<"word", 0>>>>

\* slots an entity may touch: padded addresses, slots at and around the
\* associated keccak outputs, and an unrelated slot
CandidateSlots(uo, entity) ==
  {Padded(uo.sender), Keccak(PreimageOf(uo.sender)), Keccak(PreimageOf(uo.sender)) + 17,
   Keccak(PreimageOf(uo.sender)) + 18, Padded(entity), Keccak(PreimageOf(entity)) + 1, 999}
CandidateContracts(uo, entity) ==
  {Lower(uo.sender), Lower(entrypoint), Lower(entity), OtherContract}

AccessMaps(uo, entity) ==
  {<<[contract |-> c, reads |-> <<slot>>, writes |-> <<>>]>> :
     c \in CandidateContracts(uo, entity), slot \in CandidateSlots(uo, entity)}
  \cup {<<[contract |-> c, reads |-> <<>>, writes |-> <<slot>>]>> :
     c \in CandidateContracts(uo, entity), slot \in CandidateSlots(uo, entity)}
  \cup {<<[contract |-> OtherContract, reads |-> <<Keccak(PreimageOf(uo.sender))>>,
           writes |-> <<999>>]>>,
        <<[contract |-> Lower(uo.sender), reads |-> <<999>>, writes |-> <<>>],
          [contract |-> OtherContract, reads |-> <<>>,
           writes |-> <<Keccak(PreimageOf(entity)) + 1>>]>>}

KeccakLists(uo, entity) ==
  {<<>>,
   IF entity = uo.sender THEN <<PreimageOf(uo.sender)>>
   ELSE <<PreimageOf(uo.sender), PreimageOf(entity), PreimageOf(uo.sender)>>}

\* entries of a calls list
CallEntries(uo) ==
  {CallEntry("CALL", Lower(uo.paymaster_address), VALIDATE_PAYMASTER_USER_OP_METHOD_SELECTOR, 0),
   CallEntry("CALL", OtherContract, VALIDATE_PAYMASTER_USER_OP_METHOD_SELECTOR, 0),
   CallEntry("CALL", Lower(uo.paymaster_address), "0x570e1a36", 0),
   CallEntry("CREATE", OtherContract, NoneStr, 0),
   CallEntry("RETURN", None, NoneStr, 194),
   CallEntry("RETURN", None, NoneStr, 200),
   CallEntry("REVERT", None, NoneStr, 200)}

\* a traced reply carrying a result
TracedResult(revert, trace) ==
  [has_result |-> TRUE, has_error |-> FALSE, message |-> "", has_data |-> FALSE,
   revert |-> revert, trace |-> trace]

OpcodeFamily(uo) ==
  {TracedResult(BaselineRevert, [BaselineTrace(uo) EXCEPT !.factory.opcodes = m]) : m \in OpcodeMaps}
  \cup {TracedResult(BaselineRevert, [BaselineTrace(uo) EXCEPT !.account.opcodes = m]) : m \in OpcodeMaps}
  \cup {TracedResult(BaselineRevert, [BaselineTrace(uo) EXCEPT !.paymaster.opcodes = m]) : m \in OpcodeMaps}
  \cup {TracedResult(BaselineRevert,
          [BaselineTrace(uo) EXCEPT !.factory.opcodes = f, !.account.opcodes = a,
                                    !.paymaster.opcodes = p]) :
          f \in SmallOpcodeMaps, a \in SmallOpcodeMaps, p \in SmallOpcodeMaps}

StorageFamily(uo) ==
  UNION {
    {TracedResult(WithStake(BaselineRevert, role, info),
                  WithAccess([BaselineTrace(uo) EXCEPT !.keccak = k], role, access)) :
       info \in {StakedInfo, UnstakedInfo},
       k \in KeccakLists(uo, EntityOf(uo, role)),
       access \in AccessMaps(uo, EntityOf(uo, role))} :
    role \in Roles(uo)}

CallsFamily(uo) ==
  IF uo.paymaster_address = None THEN {}
  ELSE {TracedResult([BaselineRevert EXCEPT !.paymaster_info = info],
                     [BaselineTrace(uo) EXCEPT !.calls = calls]) :
          info \in {StakedInfo, UnstakedInfo}, calls \in SeqsUpTo(CallEntries(uo), MaxCalls)}

SizesFamily(uo) ==
  {TracedResult(BaselineRevert,
     [BaselineTrace(uo) EXCEPT !.account.contract_size = a, !.factory.contract_size = f,
                               !.paymaster.contract_size = p]) :
     a \in {<<>>, <<Lower(uo.sender)>>, <<Lower(uo.sender), OtherContract>>},
     f \in {<<>>, <<OtherContract>>},
     p \in {<<>>, <<Lower(uo.sender)>>}}

\* a refused storage access of the account, for replies that fail two checks
BadAccountAccess == <<[contract |-> OtherContract, reads |-> <<999>>, writes |-> <<>>]>>

MixedFamily(uo) ==
  {TracedResult([BaselineRevert EXCEPT !.return_info.sigFailed = sig],
                [BaselineTrace(uo) EXCEPT !.account.opcodes = m, !.account.access = access]) :
     sig \in BOOLEAN, m \in {EmptyMap, OneOpcode("TIMESTAMP", 1)},
     access \in {<<>>, BadAccountAccess}}
  \cup {TracedResult(FailedOpRevert,
                     [BaselineTrace(uo) EXCEPT !.paymaster.opcodes = OneOpcode("GAS", 1)])}

\* traced replies without a result
TracedErrors(uo) ==
  {[has_result |-> FALSE, has_error |-> e, message |-> "", has_data |-> FALSE,
    revert |-> BaselineRevert, trace |-> BaselineTrace(uo)] : e \in BOOLEAN}

\* return infos and reverts of the general environment
GeneralReturnInfos ==
  [preOpGas : {150, 151}, sigFailed : BOOLEAN, validAfter : {0, NowSeconds},
   validUntil : {NowSeconds - 1, NowSeconds + 3600, NowDiv1000 - 31}]
GeneralReverts ==
  {[BaselineRevert EXCEPT !.return_info = ri, !.sender_info = si] :
     ri \in GeneralReturnInfos, si \in {StakedInfo} \cup UnstakedInfos}
  \cup {FailedOpRevert,
        [BaselineRevert EXCEPT !.selector = OtherSelector, !.decodable = FALSE],
        [BaselineRevert EXCEPT !.selector = OtherSelector, !.decodable = FALSE,
                               !.failed_op_decodable = TRUE, !.reason = "AA40 over verificationGasLimit"]}
GeneralTraces(uo) ==
  {BaselineTrace(uo),
   [BaselineTrace(uo) EXCEPT !.account.opcodes = OneOpcode("TIMESTAMP", 1)],
   [BaselineTrace(uo) EXCEPT !.account.access = BadAccountAccess],
   [BaselineTrace(uo) EXCEPT !.account.opcodes = OneOpcode("TIMESTAMP", 1),
                             !.account.access = BadAccountAccess],
   [BaselineTrace(uo) EXCEPT !.account.contract_size = <<>>]}

\* replies to eth_call of simulate_validation_without_tracing
UnsafeReplies(uo) ==
  {[has_result |-> ~e, has_error |-> e, message |-> m, has_data |-> d,
    revert |-> BaselineRevert, trace |-> BaselineTrace(uo)] :
     e \in BOOLEAN, m \in {"execution reverted", "insufficient funds"}, d \in {FALSE}}
  \cup {[has_result |-> FALSE, has_error |-> TRUE, message |-> "execution reverted",
         has_data |-> TRUE, revert |-> r, trace |-> BaselineTrace(uo)] : r \in GeneralReverts}

\* the replies to the simulation request
SimulationReplies(E, uo, unsafe) ==
  IF unsafe THEN UnsafeReplies(uo)
  ELSE IF E = "general"
    THEN TracedErrors(uo)
         \cup {TracedResult(r, t) : r \in GeneralReverts, t \in GeneralTraces(uo)}
    ELSE TracedErrors(uo) \cup OpcodeFamily(uo) \cup StorageFamily(uo) \cup CallsFamily(uo)
         \cup SizesFamily(uo) \cup MixedFamily(uo)

\* replies to the eth_call of get_addresses_code_hash
CodeHashReplies ==
  {[has_error |-> TRUE, has_data |-> TRUE, data |-> "0xhash1"],
   [has_error |-> TRUE, has_data |-> TRUE, data |-> "0xhash2"],
   [has_error |-> TRUE, has_data |-> FALSE, data |-> ""],
   [has_error |-> FALSE, has_data |-> FALSE, data |-> ""]}

NoSimReply ==
  [has_result |-> FALSE, has_error |-> FALSE, message |-> "not arrived", has_data |-> FALSE,
   revert |-> BaselineRevert, trace |-> BaselineTrace(BaseOp)]

(***************************************************************************)
(* Validation manager: validate_user_operation, one step per await.        *)
(***************************************************************************)
Request(method, gasPrice) == [method |-> method, gasPrice |-> gasPrice]

BoolStr(b) == IF b THEN "True" ELSE "False"

InitValidation(E) ==
  /\ vpc = "idle"
  /\ is_unsafe \in (IF E = "general" THEN BOOLEAN ELSE {FALSE})
  /\ whitelist_entity_storage_access \in Whitelists(E)
  /\ validated_op \in ValidatedOps(E)
  /\ op_on_entry = validated_op
  /\ calc_preverification_gas \in CalorimeterAnswers(E)
  /\ v_rpc_log = <<>>
  /\ fee_tasks = <<>>
  /\ gas_price_hex = NoHex
  /\ sim_reply = NoSimReply
  /\ trail = <<>>
  /\ opcode_outcomes = NoOutcomes
  /\ access_log = <<>>
  /\ paymaster_call = NoneCall
  /\ associated_addresses = <<>>
  /\ v_exception = NoExc
  /\ v_return = NoneStr

\* the requests of verify_gas_fees_and_get_price, lines 553-563
FeeRequests(legacy) ==
  IF legacy THEN <<Request("eth_gasPrice", NoHex)>>
  ELSE <<Request("eth_gasPrice", NoHex), Request("eth_maxPriorityFeePerGas", NoHex)>>

\* validate_user_operation up to the gather of the fee requests,
\* lines 87-88 and 549-565
ValidateUserOperation ==
  /\ vpc = "idle"
  /\ LET exc == verify_preverification_gas(validated_op, calc_preverification_gas)
     IN IF exc # NoExc
          THEN /\ vpc' = "raised"
               /\ v_exception' = exc
               /\ trail' = <<"verify_preverification_gas">>
               /\ UNCHANGED v_rpc_log
          ELSE /\ vpc' = "fees"
               /\ v_rpc_log' = v_rpc_log \o FeeRequests(is_legacy_mode)
               /\ trail' = <<"verify_preverification_gas", "verify_gas_fees_and_get_price">>
               /\ UNCHANGED v_exception
  /\ UNCHANGED <<is_unsafe, whitelist_entity_storage_access, validated_op, op_on_entry,
                 calc_preverification_gas, fee_tasks, gas_price_hex, sim_reply,
                 opcode_outcomes, access_log, paymaster_call, associated_addresses,
                 v_return>>
  /\ UNCHANGED bvars

\* the simulation request, lines 161-163 and 204-218
SimulationRequest(unsafe, price_hex) ==
  IF unsafe THEN Request("eth_call", NoHex) ELSE Request("debug_traceCall", price_hex)

\* the fee replies have arrived: lines 565-587, then the simulation request
GasFeesReply(E) ==
  /\ vpc = "fees"
  /\ \E g \in ValidationGasPriceReplies(E) :
     \E t \in (IF is_legacy_mode THEN {Pending} ELSE ValidationTipReplies(E)) :
       LET exc == verify_gas_fees(validated_op, is_legacy_mode, g, t)
       IN /\ fee_tasks' = IF is_legacy_mode THEN <<g>> ELSE <<g, t>>
          /\ IF exc # NoExc
            THEN /\ vpc' = "raised"
                 /\ v_exception' = exc
                 /\ UNCHANGED <<gas_price_hex, v_rpc_log, trail>>
            ELSE /\ vpc' = "simulate"
                 /\ gas_price_hex' = g.result
                 /\ v_rpc_log' = Append(v_rpc_log, SimulationRequest(is_unsafe, g.result))
                 /\ trail' = Append(trail, IF is_unsafe
                                             THEN "simulate_validation_without_tracing"
                                             ELSE "simulate_validation_with_tracing")
                 /\ UNCHANGED v_exception
  /\ UNCHANGED <<is_unsafe, whitelist_entity_storage_access, validated_op, op_on_entry,
                 calc_preverification_gas, sim_reply, opcode_outcomes, access_log,
                 paymaster_call, associated_addresses, v_return>>
  /\ UNCHANGED bvars

\* the simulation reply has arrived: lines 100-135 up to the await of
\* get_addresses_code_hash at line 335
SimulationReply(E) ==
  /\ vpc = "simulate"
  /\ \E reply \in SimulationReplies(E, validated_op, is_unsafe) :
       LET out == AfterSimulation(validated_op, is_unsafe,
                                  whitelist_entity_storage_access, reply)
       IN /\ sim_reply' = reply
          /\ trail' = trail \o out.trail
          /\ opcode_outcomes' = out.opcode_outcomes
          /\ access_log' = out.access_log
          /\ paymaster_call' = out.paymaster_call
          /\ associated_addresses' = out.associated_addresses
          /\ v_exception' = out.exc
          /\ IF out.exc # NoExc
               THEN /\ vpc' = "raised"
                    /\ UNCHANGED v_rpc_log
               ELSE /\ vpc' = "code_hash"
                    /\ v_rpc_log' = Append(v_rpc_log, Request("eth_call", NoHex))
  /\ UNCHANGED <<is_unsafe, whitelist_entity_storage_access, validated_op, op_on_entry,
                 calc_preverification_gas, fee_tasks, gas_price_hex, v_return>>
  /\ UNCHANGED bvars

\* CodeHashReply storing the hash alone
CodeHashReply_HashOnly ==
  /\ vpc = "code_hash"
  /\ \E reply \in CodeHashReplies :
       IF ~reply.has_error
         THEN /\ vpc' = "raised"
              /\ v_exception' = Exc("ValueError", "BundlerHelper should revert")
              /\ UNCHANGED <<validated_op, v_return>>
       ELSE IF ~reply.has_data
         THEN /\ vpc' = "raised"
              /\ v_exception' = Exc("KeyError", "data")
              /\ UNCHANGED <<validated_op, v_return>>
       ELSE /\ vpc' = "returned"
            /\ validated_op' = [validated_op EXCEPT !.code_hash = reply.data]
            /\ v_return' = BoolStr(is_staked(sim_reply.revert.sender_info))
            /\ UNCHANGED v_exception
  /\ UNCHANGED <<is_unsafe, whitelist_entity_storage_access, op_on_entry,
                 calc_preverification_gas, v_rpc_log, fee_tasks, gas_price_hex, sim_reply, trail,
                 opcode_outcomes, access_log, paymaster_call, associated_addresses>>
  /\ UNCHANGED bvars

\* the BundlerHelper reply has arrived: lines 504-507, 335-338 and 136
CodeHashReply ==
  /\ vpc = "code_hash"
  /\ \E reply \in CodeHashReplies :
       IF ~reply.has_error
         THEN /\ vpc' = "raised"
              /\ v_exception' = Exc("ValueError", "BundlerHelper should revert")
              /\ UNCHANGED <<validated_op, v_return>>
       ELSE IF ~reply.has_data
         THEN /\ vpc' = "raised"
              /\ v_exception' = Exc("KeyError", "data")
              /\ UNCHANGED <<validated_op, v_return>>
       ELSE /\ vpc' = "returned"
            /\ validated_op' = [validated_op EXCEPT !.code_hash = reply.data,
                                                    !.associated_addresses = associated_addresses]
            /\ v_return' = BoolStr(is_staked(sim_reply.revert.sender_info))
            /\ UNCHANGED v_exception
  /\ UNCHANGED <<is_unsafe, whitelist_entity_storage_access, op_on_entry,
                 calc_preverification_gas, v_rpc_log, fee_tasks, gas_price_hex, sim_reply, trail,
                 opcode_outcomes, access_log, paymaster_call, associated_addresses>>
  /\ UNCHANGED bvars

ValidateNext(E) ==
  ValidateUserOperation \/ GasFeesReply(E) \/ SimulationReply(E) \/ CodeHashReply

(***************************************************************************)
(* Specifications.                                                         *)
(***************************************************************************)
\* the bundle manager alone, validation idle
InitSpecBundle ==
  /\ InitBundle
  /\ is_legacy_mode \in BOOLEAN
  /\ is_send_raw_transaction_conditional \in BOOLEAN
  /\ InitValidation("idle")

SpecBundle == InitSpecBundle /\ [][BundleNext]_vars

\* the scheduler runs every step that is ready: replies arrive, awaits resume
FairSpecBundle == SpecBundle /\ WF_vars(BundleNext)

\* validate_user_operation in the general environment
InitSpecValidate ==
  /\ InitBundle
  /\ is_legacy_mode \in BOOLEAN
  /\ is_send_raw_transaction_conditional = FALSE
  /\ InitValidation("general")

SpecValidate == InitSpecValidate /\ [][ValidateNext("general")]_vars

\* traced validate_user_operation in the trace environment
InitSpecTrace ==
  /\ InitBundle
  /\ is_legacy_mode = FALSE
  /\ is_send_raw_transaction_conditional = FALSE
  /\ InitValidation("trace")

SpecTrace == InitSpecTrace /\ [][ValidateNext("trace")]_vars

\* both managers on one event loop
Init ==
  /\ InitBundle
  /\ is_legacy_mode \in BOOLEAN
  /\ is_send_raw_transaction_conditional \in BOOLEAN
  /\ InitValidation("general")

Next == BundleNext \/ ValidateNext("general")

Spec == Init /\ [][Next]_vars

(***************************************************************************)
(* Claims about the bundle manager.                                        *)
(***************************************************************************)
\* send_next_bundle has returned or raised
BundleEnded == bpc \in {"done", "raised"}

\* the submission reply is an error whose data decodes as FailedOp
IsFailedOpReply(r) == r.has_error /\ r.has_data /\ r.selector = FailedOpSelector

\* the operation a FailedOp reply points at, in the list first submitted
FailingOp == invocations[1][result.operation_index + 1]

\* number of positions of seq that hold a
Count(seq, a) == Cardinality({k \in DOMAIN seq : seq[k] = a})

\* C1: once send_bundle has handled a FailedOp(opIndex, reason) reply, the
\* failing operation is gone from the bundle and, if operations remain, a
\* second handleOps transaction holding exactly the remaining operations in
\* their original order has been submitted.
C1_FailedOpResubmitsRemainder ==
  (BundleEnded /\ IsFailedOpReply(result)) =>
    LET rest == DelAt(invocations[1], result.operation_index)
    IN /\ user_operations = rest
       /\ (rest # <<>> => (Len(sent) >= 2 /\ sent[2].data = rest))

\* the ban C2 asks for, read off the failing operation
C2_ExpectedBan(reason, op) ==
  CASE ReasonTag(reason) = "AA2" -> <<op.sender>>
    [] ReasonTag(reason) = "AA1" /\ op.factory_address # None -> <<op.factory_address>>
    [] ReasonTag(reason) = "AA3" /\ op.paymaster_address # None -> <<op.paymaster_address>>
    [] OTHER -> <<>>

\* C2: once send_bundle has handled a FailedOp(opIndex, reason) reply, the
\* bans issued are exactly the one entity of ops[opIndex] that the reason
\* blames (sender for AA2, factory for AA1, paymaster for AA3, when present),
\* and nothing else.
C2_BanBelongsToFailingOp ==
  (BundleEnded /\ IsFailedOpReply(result)) =>
    banned = C2_ExpectedBan(result.reason, FailingOp)

\* C3: after a submission that returned a transaction hash, every address is
\* reported included once for each operation of the submitted bundle that has
\* it as sender, once for each that has it as factory and once for each that
\* has it as paymaster; an absent entity is never reported; nothing is banned.
C3_IncludedOncePerEntity ==
  (bpc = "done" /\ Len(sent) > 0 /\ ~result.has_error) =>
    LET ops == sent[Len(sent)].data
    IN /\ \A a \in BundleSenders \cup BundleFactories \cup BundlePaymasters :
            Count(included, a) =
              IF a = None THEN 0
              ELSE Cardinality({k \in DOMAIN ops : ops[k].sender = a})
                   + Cardinality({k \in DOMAIN ops : ops[k].factory_address = a})
                   + Cardinality({k \in DOMAIN ops : ops[k].paymaster_address = a})
       /\ \A k \in DOMAIN included :
            included[k] \in BundleSenders \cup BundleFactories \cup BundlePaymasters
       /\ banned = <<>>

\* a two-operation bundle, one operation with factory and paymaster and one
\* with neither, was submitted and accepted
C3_Witness ==
  /\ bpc = "done"
  /\ ~result.has_error
  /\ Len(sent) = 1
  /\ Len(user_operations) = 2
  /\ user_operations[1].factory_address # None
  /\ user_operations[1].paymaster_address # None
  /\ user_operations[2].factory_address = None
  /\ user_operations[2].paymaster_address = None
  /\ user_operations[1].sender = user_operations[2].sender
  /\ Len(included) = 4

\* C4: after a submission error that is not a FailedOp revert, send_bundle
\* has returned normally, with one submission made, nothing banned and
\* nothing reported included.
C4_OtherErrorDropsBundle ==
  (BundleEnded /\ result.has_error /\ ~IsFailedOpReply(result)) =>
    /\ bpc = "done"
    /\ bexception = NoException
    /\ Len(sent) = 1
    /\ banned = <<>>
    /\ included = <<>>

TraceReceived == ~is_unsafe /\ sim_reply.has_result

\* the stake info the simulation reported for an entity title
StakeInfoOf(title) ==
  CASE title = "sender" -> sim_reply.revert.sender_info
    [] title = "factory" -> sim_reply.revert.factory_info
    [] OTHER -> sim_reply.revert.paymaster_info

\* the slots of the keccak preimages that hold the padded address
AssociatedSlotsOf(address) ==
  {Keccak(sim_reply.trace.keccak[k]) : k \in
     {j \in DOMAIN sim_reply.trace.keccak :
        \/ sim_reply.trace.keccak[j][1] = <<"pad", address[1]>>
        \/ sim_reply.trace.keccak[j][2] = <<"pad", address[1]>>}}

\* slot == leftpad32(address), or slot in [k, k+17] for an associated k
SlotAssociatedWith(slot, address) ==
  \/ slot = Padded(address)
  \/ \E k \in AssociatedSlotsOf(address) : slot >= k /\ slot <= k + 17

\* the acceptance condition for one examined access
AccessAcceptable(e) ==
  \/ e.contract = Lower(validated_op.sender)
  \/ e.contract = Lower(entrypoint)
  \/ /\ SlotAssociatedWith(e.slot, validated_op.sender)
     /\ (e.title = "factory" /\ validated_op.init_code_len > 2)
          => is_staked(StakeInfoOf(e.title))
  \/ SlotAssociatedWith(e.slot, e.entity) /\ is_staked(StakeInfoOf(e.title))
  \/ e.contract = Lower(e.entity) /\ is_staked(StakeInfoOf(e.title))

\* C6: every (contract, slot) access of an entity outside the whitelist is
\* accepted exactly when the contract is the sender or the entrypoint, or the
\* slot is associated with the sender (the factory during initCode being
\* staked), or the slot is associated with the entity and the entity is
\* staked, or the contract is the entity itself and the entity is staked;
\* every other access is refused.
C6_StorageAccessRule ==
  \A k \in DOMAIN access_log :
    (access_log[k].outcome = "accepted") <=> AccessAcceptable(access_log[k])

\* the frames of the flattened call stack
FlattenedCalls == parse_call_stack(sim_reply.trace.calls, validated_op.paymaster_address).results

\* a validatePaymasterUserOp call to the paymaster returned a context
ContextReturned ==
  \E k \in DOMAIN FlattenedCalls :
    /\ FlattenedCalls[k]._to = Lower(validated_op.paymaster_address)
    /\ FlattenedCalls[k]._method = VALIDATE_PAYMASTER_USER_OP_METHOD_SELECTOR
    /\ FlattenedCalls[k]._data > 194

\* C7: when traced validation of an operation with a paymaster reaches the
\* paymaster context rule, it raises OpcodeValidation "unstaked paymaster
\* must not return context" exactly when a validatePaymasterUserOp call to
\* the paymaster returned more than 194 hex characters and the paymaster is
\* unstaked; otherwise nothing is raised there and validation goes on to the
\* code-hash snapshot.
C7_PaymasterContextRule ==
  "paymaster_context" \in Range(trail) =>
    IF ContextReturned /\ ~is_staked(sim_reply.revert.paymaster_info)
      THEN v_exception = Exc("OpcodeValidation", "unstaked paymaster must not return context")
      ELSE "associated_addresses" \in Range(trail)

\* the opcode map the trace reports for a role
OpcodesOf(role) ==
  CASE role = "factory" -> sim_reply.trace.factory.opcodes
    [] role = "account" -> sim_reply.trace.account.opcodes
    [] OTHER -> sim_reply.trace.paymaster.opcodes

OpcodeRoles == <<"factory", "account", "paymaster">>

\* the banned opcodes among the keys of a role's map
BannedFound(role) == DOMAIN OpcodesOf(role) \cap banned_opcodes

AnyBannedFound == \E k \in 1..3 : BannedFound(OpcodeRoles[k]) # {}

\* C8 as stated: a traced simulation with a banned opcode in any of the three
\* maps is rejected with OpcodeValidation naming a role whose map holds a
\* banned opcode and the banned opcodes found there, before any storage check.
C8_BannedOpcodeRejects ==
  (TraceReceived /\ AnyBannedFound) =>
    /\ vpc = "raised"
    /\ v_exception.kind = "OpcodeValidation"
    /\ \E k \in 1..3 : /\ v_exception.source = OpcodeRoles[k]
                       /\ BannedFound(OpcodeRoles[k]) # {}
                       /\ v_exception.opcodes = BannedFound(OpcodeRoles[k])
    /\ access_log = <<>>

\* a role's map breaks the CREATE2 rule
Create2Broken(role) ==
  /\ "CREATE2" \in DOMAIN OpcodesOf(role)
  /\ \/ OpcodesOf(role)["CREATE2"] > 1
     \/ OpcodesOf(role)["CREATE2"] = 1 /\ role # "factory"

\* a role's map is refused by the opcode rules
OpcodesRefused(role) == BannedFound(role) # {} \/ Create2Broken(role)

\* the first role, in the order factory, account, paymaster, that is refused
FirstRefused ==
  IF OpcodesRefused("factory") THEN "factory"
  ELSE IF OpcodesRefused("account") THEN "account"
  ELSE "paymaster"

\* C8 amended: a traced simulation with a banned opcode in any of the three
\* maps is always rejected; once the earlier checks of the reply have passed
\* and the opcode check is reached, the rejection is OpcodeValidation naming
\* the first refused role in the order factory, account, paymaster, with the
\* banned opcodes of its map (or CREATE2 when it breaks the CREATE2 rule
\* only), and no storage access has been examined.
C8_BannedOpcodeRejectsInOrder ==
  (TraceReceived /\ AnyBannedFound) =>
    /\ vpc = "raised"
    /\ "check_banned_op_codes" \in Range(trail) =>
         /\ v_exception.kind = "OpcodeValidation"
         /\ v_exception.source = FirstRefused
         /\ v_exception.opcodes = IF BannedFound(FirstRefused) # {}
                                    THEN BannedFound(FirstRefused) ELSE {"CREATE2"}
         /\ access_log = <<>>
         /\ "storage_access_sender" \notin Range(trail)

C8_Witness ==
  /\ vpc = "raised"
  /\ "check_banned_op_codes" \in Range(trail)
  /\ BannedFound("account") = {"TIMESTAMP", "GAS"}
  /\ v_exception.source = "account"
  /\ v_exception.opcodes = {"TIMESTAMP", "GAS"}
  /\ access_log = <<>>

\* C9: for a map without banned opcodes, the factory level is accepted
\* exactly when CREATE2 occurs at most once, the account and paymaster
\* levels exactly when CREATE2 does not occur (count 0 or key absent), and
\* every refusal is an OpcodeValidation.
C9_Create2Rule ==
  "check_banned_op_codes" \in Range(trail) =>
    \A k \in 1..3 :
      LET role == OpcodeRoles[k]
          n == IF "CREATE2" \in DOMAIN OpcodesOf(role) THEN OpcodesOf(role)["CREATE2"] ELSE 0
      IN BannedFound(role) = {} =>
           /\ (opcode_outcomes[role] = NoExc) <=> (IF role = "factory" THEN n <= 1 ELSE n = 0)
           /\ opcode_outcomes[role] # NoExc => opcode_outcomes[role].kind = "OpcodeValidation"

C9_Witness ==
  /\ "check_banned_op_codes" \in Range(trail)
  /\ OpcodesOf("factory") = OneOpcode("CREATE2", 1)
  /\ OpcodesOf("account") = OneOpcode("CREATE2", 1)
  /\ opcode_outcomes.factory = NoExc
  /\ opcode_outcomes.account.kind = "OpcodeValidation"
  /\ v_exception.source = "account"
  /\ vpc = "raised"

\* C10: an operation whose preVerificationGas is below the calorimeter's
\* answer is rejected with SimulateValidation before any RPC request is
\* issued; with preVerificationGas at or above the answer this check does
\* not reject.
C10_PreVerificationGasRule ==
  vpc # "idle" =>
    IF op_on_entry.pre_verification_gas < calc_preverification_gas
      THEN /\ vpc = "raised"
           /\ v_exception = Exc("SimulateValidation", "Preverification gas is too low")
           /\ v_rpc_log = <<>>
      ELSE /\ v_exception.message # "Preverification gas is too low"
           /\ Len(v_rpc_log) > 0

C10_Witness ==
  /\ vpc = "raised"
  /\ op_on_entry.pre_verification_gas < calc_preverification_gas
  /\ v_exception.kind = "SimulateValidation"
  /\ v_rpc_log = <<>>

\* the ReturnInfo decoded from the simulation reply
DecodedReturnInfo == sim_reply.revert.return_info

\* the timestamp stage was reached and the signature, gas-accounting and
\* validAfter checks of lines 517-538 let the operation through
PassedUpToValidAfter ==
  /\ "verify_sig_and_pre_operation_gas_and_timestamp" \in Range(trail)
  /\ ~DecodedReturnInfo.sigFailed
  /\ ~(op_on_entry.verification_gas_limit + op_on_entry.pre_verification_gas
         < DecodedReturnInfo.preOpGas)
  /\ ~(DecodedReturnInfo.validAfter > NowDiv1000 - 30)

\* C11: an operation that passes the signature, gas-accounting and validAfter
\* checks is rejected with ExpiresShortly whenever its validUntil is in the
\* past or less than 30 seconds after the current time in seconds; so
\* validUntil = now - 1 s is rejected.
C11_ExpiringRejected ==
  (PassedUpToValidAfter /\ DecodedReturnInfo.validUntil < NowSeconds + 30)
    => v_exception.kind = "ExpiresShortly"

\* every check of verify_sig_and_pre_operation_gas_and_timestamp let the
\* operation through
PassedTimestampStage ==
  /\ PassedUpToValidAfter
  /\ ~(DecodedReturnInfo.validUntil + 30 < NowDiv1000)

\* the methods of the requests the validation manager has sent
MethodsSent == {v_rpc_log[k].method : k \in DOMAIN v_rpc_log}

\* C12: in unsafe mode an operation that passes the pre-verification-gas,
\* fee, revert-classification, signature, gas-accounting and timing checks
\* is validated without debug_traceCall and without opcode, storage-access
\* or paymaster-context checks, and validate returns is_sender_staked.
C12_UnsafeReturnsSenderStaked ==
  (is_unsafe /\ PassedTimestampStage) =>
    /\ vpc = "returned"
    /\ v_return = BoolStr(is_staked(sim_reply.revert.sender_info))
    /\ "debug_traceCall" \notin MethodsSent
    /\ "check_banned_op_codes" \notin Range(trail)
    /\ access_log = <<>>

\* the reply to the eth_call of simulate_validation_without_tracing is in
UnsafeReplyReceived == is_unsafe /\ sim_reply # NoSimReply

\* the reply carries no revert error
NoRevertError == ~sim_reply.has_error \/ sim_reply.message # "execution reverted"

\* C13: in unsafe mode a simulation reply without a revert error ends
\* validate with the fatal "simulateValidation didn't revert!", which is not
\* a SimulateValidation exception, and no later validation step runs; a
\* reverting reply never produces that error.
C13_NoRevertIsFatal ==
  UnsafeReplyReceived =>
    IF NoRevertError
      THEN /\ vpc = "raised"
           /\ v_exception.kind = "ValueError"
           /\ v_exception.message = "simulateValidation didn't revert!"
           /\ v_exception.kind # "SimulateValidation"
           /\ "check_if_failed_op_error" \notin Range(trail)
           /\ "decode_validation_result" \notin Range(trail)
           /\ "verify_sig_and_pre_operation_gas_and_timestamp" \notin Range(trail)
      ELSE v_exception.message # "simulateValidation didn't revert!"

C13_Witness ==
  /\ is_unsafe
  /\ sim_reply.has_result
  /\ ~sim_reply.has_error
  /\ vpc = "raised"
  /\ v_exception.kind = "ValueError"
  /\ trail[Len(trail)] = "simulate"

\* the fee replies are in and each carries a result
FeeRepliesIn ==
  /\ fee_tasks # <<>>
  /\ \A k \in DOMAIN fee_tasks : HasResult(fee_tasks[k])

\* the node's eth_gasPrice value and the tip compared against
NodeGasPrice == IntOfHex(fee_tasks[1].result)
NodeTip == IF is_legacy_mode THEN NodeGasPrice ELSE IntOfHex(fee_tasks[2].result)

FeeMessages == {"Max fee per gas is too low", "Max priority fee per gas is too low"}

\* C14: the fee check rejects with SimulateValidation when maxFeePerGas is
\* below the node's eth_gasPrice value or maxPriorityFeePerGas is below the
\* tip (the node's eth_maxPriorityFeePerGas value unless legacy); otherwise
\* it passes and returns the node's eth_gasPrice hex value, which is the
\* gasPrice parameter of the debug_traceCall that follows.
C14_FeeCheck ==
  FeeRepliesIn =>
    IF \/ op_on_entry.max_fee_per_gas < NodeGasPrice
       \/ op_on_entry.max_priority_fee_per_gas < NodeTip
      THEN /\ vpc = "raised"
           /\ v_exception.kind = "SimulateValidation"
           /\ v_exception.message \in FeeMessages
           /\ gas_price_hex = NoHex
           /\ MethodsSent \cap {"eth_call", "debug_traceCall"} = {}
      ELSE /\ v_exception.message \notin FeeMessages
           /\ gas_price_hex = fee_tasks[1].result
           /\ ~is_unsafe =>
                /\ \E k \in DOMAIN v_rpc_log : v_rpc_log[k].method = "debug_traceCall"
                /\ \A k \in DOMAIN v_rpc_log :
                     v_rpc_log[k].method = "debug_traceCall"
                       => v_rpc_log[k].gasPrice = fee_tasks[1].result

C14_Witness ==
  /\ vpc = "simulate"
  /\ ~is_legacy_mode /\ ~is_unsafe
  /\ fee_tasks = <<RpcResult(Hex(2000)), RpcResult(Hex(2))>>
  /\ op_on_entry.max_fee_per_gas = 2000 /\ op_on_entry.max_priority_fee_per_gas = 2
  /\ v_rpc_log[Len(v_rpc_log)] = Request("debug_traceCall", Hex(2000))

\* the first check, in the order of the claim, that the inputs received so
\* far fail; "pending" while the reply it needs is not in, "outside" for an
\* outcome that is none of the listed checks, "none" when all pass
FirstFailingCheck ==
  IF op_on_entry.pre_verification_gas < calc_preverification_gas THEN "pre-verification gas"
  ELSE IF fee_tasks = <<>> THEN "pending"
  ELSE IF ~FeeRepliesIn THEN "outside"
  ELSE IF \/ op_on_entry.max_fee_per_gas < NodeGasPrice
          \/ op_on_entry.max_priority_fee_per_gas < NodeTip THEN "fee"
  ELSE IF sim_reply = NoSimReply THEN "pending"
  ELSE IF is_unsafe /\ (NoRevertError \/ ~sim_reply.has_data) THEN "simulate"
  ELSE IF ~is_unsafe /\ ~sim_reply.has_result THEN "simulate"
  ELSE IF sim_reply.revert.selector = FailedOpSelector THEN "FailedOp"
  ELSE IF ~sim_reply.revert.decodable THEN "outside"
  ELSE IF DecodedReturnInfo.sigFailed THEN "sigFailed"
  ELSE IF op_on_entry.verification_gas_limit + op_on_entry.pre_verification_gas
            < DecodedReturnInfo.preOpGas THEN "gas accounting"
  ELSE IF DecodedReturnInfo.validAfter > NowDiv1000 - 30 THEN "validAfter"
  ELSE IF DecodedReturnInfo.validUntil + 30 < NowDiv1000 THEN "validUntil"
  ELSE IF is_unsafe THEN "outside"
  ELSE IF \E k \in 1..3 : OpcodesRefused(OpcodeRoles[k]) THEN "opcode"
  ELSE "none"

\* the step of validate_user_operation a check belongs to
StepOf(check) ==
  CASE check = "pre-verification gas" -> "verify_preverification_gas"
    [] check = "fee" -> "verify_gas_fees_and_get_price"
    [] check = "simulate" -> "simulate"
    [] check = "FailedOp" -> "check_if_failed_op_error"
    [] check = "opcode" -> "check_banned_op_codes"
    [] OTHER -> "verify_sig_and_pre_operation_gas_and_timestamp"

\* the exception kind a check raises
KindOf(check) ==
  CASE check = "sigFailed" -> "InvalidSignature"
    [] check = "validAfter" -> "InvalidFields"
    [] check = "validUntil" -> "ExpiresShortly"
    [] check = "opcode" -> "OpcodeValidation"
    [] check = "simulate" /\ is_unsafe /\ NoRevertError -> "ValueError"
    [] OTHER -> "SimulateValidation"

\* the requests sent by the time a check runs
RequestsBy(check) ==
  IF check = "pre-verification gas" THEN 0
  ELSE IF check = "fee" THEN Len(FeeRequests(is_legacy_mode))
  ELSE Len(FeeRequests(is_legacy_mode)) + 1

ContractSizeKeys ==
  Range(sim_reply.trace.factory.contract_size)
  \cup Range(sim_reply.trace.account.contract_size)
  \cup Range(sim_reply.trace.paymaster.contract_size)

\* C16: after a traced validate that returns, the operation's
\* associated_addresses holds, checksum-cased, every key of contractSize at
\* the factory, account and paymaster levels, whether or not the operation
\* has a factory or a paymaster; and a trace whose contractSize maps are all
\* empty does not make validate fail.
C16_AssociatedAddressesCoverTrace ==
  /\ (TraceReceived /\ vpc = "returned") =>
       \A a \in ContractSizeKeys :
         to_checksum_address(a) \in Range(validated_op.associated_addresses)
  /\ (TraceReceived /\ "associated_addresses" \in Range(trail) /\ ContractSizeKeys = {}) =>
       vpc # "raised"

\* the positions of rpc_log that hold a submission request
SubmissionsAt ==
  {k \in DOMAIN rpc_log :
     rpc_log[k] \in {"eth_sendRawTransaction", "eth_sendRawTransactionConditional"}}

\* every reply of the fan-out is in and carries a result
FanoutComplete ==
  /\ tasks # <<>>
  /\ \A i \in DOMAIN tasks : HasResult(tasks[i])

TraceCalls == sim_reply.trace.calls
IsExit(entry) == entry.type \in {"RETURN", "REVERT"}
ExitPositions == {j \in DOMAIN TraceCalls : IsExit(TraceCalls[j])}

\* how many entries at positions lo..hi are exits, and how many are pushed
ExitsBetween(lo, hi) == Cardinality({k \in lo..hi : IsExit(TraceCalls[k])})
PushesBetween(lo, hi) == Cardinality({k \in lo..hi : ~IsExit(TraceCalls[k])})

\* the most recently pushed frame still unmatched at exit position j, or 0
MatchOf(j) ==
  LET open == {i \in 1..(j - 1) :
                 /\ ~IsExit(TraceCalls[i])
                 /\ PushesBetween(i + 1, j - 1) = ExitsBetween(i + 1, j - 1)}
  IN IF open = {} THEN 0 ELSE CHOOSE i \in open : \A other \in open : other <= i

\* the position in the emitted list of the exit at position j
EmittedIndex(j) == ExitsBetween(1, j)

\* what parse_call_stack reports as the paymaster's call
ReportedPaymasterCall ==
  parse_call_stack(TraceCalls, validated_op.paymaster_address).paymaster_call

\* C18: parse_call_stack emits one resolved Call per RETURN or REVERT entry,
\* in entry order, built from the most recently pushed unmatched frame, with
\* return_type equal to the exit entry's type; an exit met with an empty
\* stack emits a synthesized frame with method validateUserOp; the reported
\* paymaster call is an emitted Call to the paymaster with method 0xf465c77e,
\* or none when no such Call exists.
C18_ParseCallStackIsLifo ==
  TraceReceived =>
    /\ Len(FlattenedCalls) = Cardinality(ExitPositions)
    /\ \A j \in ExitPositions :
         LET emitted == FlattenedCalls[EmittedIndex(j)]
         IN /\ emitted._return_type = TraceCalls[j].type
            /\ IF MatchOf(j) = 0
                 THEN emitted._method = "validateUserOp"
                 ELSE /\ emitted._to = TraceCalls[MatchOf(j)].to
                      /\ emitted._type = TraceCalls[MatchOf(j)].type
    /\ LET matching == {k \in DOMAIN FlattenedCalls :
                          /\ validated_op.paymaster_address # None
                          /\ FlattenedCalls[k]._to = Lower(validated_op.paymaster_address)
                          /\ FlattenedCalls[k]._method = VALIDATE_PAYMASTER_USER_OP_METHOD_SELECTOR}
       IN IF matching = {} THEN ReportedPaymasterCall = NoneCall
          ELSE \E k \in matching : ReportedPaymasterCall = FlattenedCalls[k]

\* C19: validate changes no field of the UserOperation but code_hash and
\* associated_addresses; it sets the two together, only after the opcode,
\* storage-access and paymaster-context checks have passed and the
\* BundlerHelper call has returned its revert data; whenever validate has
\* raised, the UserOperation is as it was on entry.
C19_OnlyCodeHashAndAddressesSet ==
  /\ [validated_op EXCEPT !.code_hash = op_on_entry.code_hash,
                          !.associated_addresses = op_on_entry.associated_addresses]
       = op_on_entry
  /\ vpc = "raised" => validated_op = op_on_entry
  /\ validated_op # op_on_entry =>
       /\ validated_op.code_hash # op_on_entry.code_hash
       /\ validated_op.associated_addresses # op_on_entry.associated_addresses
       /\ validated_op.associated_addresses = associated_addresses
       /\ vpc = "returned"
       /\ v_exception = NoExc
       /\ GatherException(opcode_outcomes) = NoExc
       /\ StorageException(access_log) = NoExc
       /\ trail[Len(trail)] = "get_addresses_code_hash"
       /\ validated_op.paymaster_address # None => "paymaster_context" \in Range(trail)
       /\ v_rpc_log[Len(v_rpc_log)] = Request("eth_call", NoHex)
  /\ vpc = "returned" => validated_op # op_on_entry

C19_Witness ==
  /\ vpc = "returned"
  /\ op_on_entry.code_hash = NoHash
  /\ validated_op.code_hash = "0xhash1"
  /\ validated_op.paymaster_address = Cs("paymaster9")
  /\ validated_op.associated_addresses = <<Cs("sender"), to_checksum_address(OtherContract)>>
  /\ "paymaster_context" \in Range(trail)

====
